---------------------------- MODULE Spec2Model ----------------------------
(***************************************************************************)
(* A model of SLSChangeDetectorDialog (src/sls_change_detector.py): the    *)
(* result state of the dialog and the run_detection handler with the       *)
(* stages it calls (validate_layers, the duplicate check, the by-id        *)
(* classification with detect_geometry_changes, run_spatial_analysis with  *)
(* enhanced_spatial_analysis, and the merge).                              *)
(*                                                                         *)
(* Numbers.  Areas (the luas attribute and geometry areas) are integers in *)
(* units of 0.0001; lengths are in units of 0.0001 too.  The data sets     *)
(* hold no pair whose difference is exactly a threshold, so the rounding   *)
(* of Python floats at a threshold is outside the model.                   *)
(*                                                                         *)
(* Geometry.  QgsGeometry is modelled by axis-parallel rectangles          *)
(* [0, x] by [0, w] (x in units of 0.0001, w in whole units): area is      *)
(* w * x, and two rectangles are equal within a tolerance when they have   *)
(* the same w and their x differ by at most the tolerance.                 *)
(*                                                                         *)
(* The processing engine (qgis.processing) is the environment: each run    *)
(* draws its behaviour (unavailable, an algorithm raising, or the joined   *)
(* difference layer it returns) from the set `engine`.                     *)
(***************************************************************************)
EXTENDS Integers, Sequences, FiniteSets, TLC

VARIABLES
    changes_by_id,      \* self.changes_by_id
    spatial_changes,    \* self.spatial_changes
    combined_report,    \* self.combined_report
    duplicate_ids_new,  \* self.duplicate_ids_new
    last_run,           \* the latest run_detection call: its inputs and how it ended
    disk,               \* the files that exist: path -> how QgsVectorLayer opens it
    engine,             \* the behaviours the geometry/processing engine can show
    hash_order          \* the keys in the order this process's sets iterate them

vars == <<changes_by_id, spatial_changes, combined_report, duplicate_ids_new,
          last_run, disk, engine, hash_order>>

-----------------------------------------------------------------------------
(* Values *)

\* Python None for an integer-valued attribute is the empty tuple, a value v is <<v>>.
NoneNum == <<>>

\* Python None / QGIS NULL for a string-valued attribute or key.
None == "<None>"

\* A QgsGeometry.  `null` is the empty geometry (bool(geom) is False).
Geom(valid, w, x) == [null |-> FALSE, valid |-> valid, w |-> w, x |-> x]

NullGeom == [null |-> TRUE, valid |-> FALSE, w |-> 0, x |-> 0]

Abs(n) == IF n < 0 THEN -n ELSE n

\* QgsGeometry.area()
area(g) == IF g.null THEN 0 ELSE g.w * g.x

\* QgsGeometry.isGeosValid(): the empty geometry is not valid
isGeosValid(g) == (~g.null) /\ g.valid

\* geom_old.equals(geom_new, tolerance)
equals(g, h, tol) == /\ g.null = h.null
                     /\ g.w = h.w
                     /\ Abs(g.x - h.x) <= tol

\* A feature of a layer: its attributes and its geometry.
Feature(id, luas, kd, gid, g) ==
    [idsubsls |-> id, luas |-> luas, kdsubsls |-> kd, gid |-> gid, geom |-> g]

\* A file that exists, and the QgsVectorLayer it opens as.
Layer(fields, crs, gtype, feats) ==
    [exists |-> TRUE, valid |-> TRUE, fields |-> fields, crs |-> crs, gtype |-> gtype,
     feats |-> feats]

\* A path that names no file (os.path.exists is False).
NoFile == [exists |-> FALSE, valid |-> FALSE, fields |-> {}, crs |-> "", gtype |-> "",
           feats |-> <<>>]

\* A file that exists and that OGR cannot open (layer.isValid() is False).
Unreadable == [exists |-> TRUE, valid |-> FALSE, fields |-> {}, crs |-> "", gtype |-> "",
               feats |-> <<>>]

AllFields == {"idsubsls", "luas", "kdsubsls", "gid"}

\* layer.crs().isValid(): the empty CRS is the invalid one
crsIsValid(crs) == crs # ""

Range(s) == {s[i] : i \in DOMAIN s}

\* The enumerations of a finite set: every order a Python set can iterate in.
Orders(S) == {s \in [1..Cardinality(S) -> S] : Range(s) = S}

\* for idsubsls in <a set of keys>: the language leaves the order open, the
\* hashes of the process fix it, so two iterations of one set agree.
iterate(S) == SelectSeq(hash_order, LAMBDA k : k \in S)

\* The keys of an Integer field are Python ints, written here by their digits;
\* isinstance(key, str) holds of every other key but NULL.
IntegerKeys == {"1", "2"}

is_str(key) == key \notin IntegerKeys \cup {None}

-----------------------------------------------------------------------------
(* validate_layers *)

\* layer.fields().indexOf(field) == -1
FieldMissing(layer, field) == field \notin layer.fields

required_fields == <<"idsubsls", "luas">>

\* validate_layers with "luas" left out of its required fields.
validate_layers_without_luas(old_layer, new_layer) ==
    LET crsErr   == IF ~crsIsValid(old_layer.crs) \/ ~crsIsValid(new_layer.crs)
                    THEN <<"crs">> ELSE <<>>
        typeErr  == IF old_layer.gtype # new_layer.gtype THEN <<"gtype">> ELSE <<>>
        fieldErr == SelectSeq(<<"idsubsls">>,
                              LAMBDA f : FieldMissing(old_layer, f) \/ FieldMissing(new_layer, f))
        oldEmpty == IF Len(old_layer.feats) = 0 THEN <<"old_empty">> ELSE <<>>
        newEmpty == IF Len(new_layer.feats) = 0 THEN <<"new_empty">> ELSE <<>>
    IN  crsErr \o typeErr \o fieldErr \o oldEmpty \o newEmpty

\* The error list of validate_layers, in the order the checks append to it.
validate_layers(old_layer, new_layer) ==
    LET crsErr   == IF ~crsIsValid(old_layer.crs) \/ ~crsIsValid(new_layer.crs)
                    THEN <<"crs">> ELSE <<>>
        typeErr  == IF old_layer.gtype # new_layer.gtype THEN <<"gtype">> ELSE <<>>
        fieldErr == SelectSeq(required_fields,
                              LAMBDA f : FieldMissing(old_layer, f) \/ FieldMissing(new_layer, f))
        oldEmpty == IF Len(old_layer.feats) = 0 THEN <<"old_empty">> ELSE <<>>
        newEmpty == IF Len(new_layer.feats) = 0 THEN <<"new_empty">> ELSE <<>>
    IN  crsErr \o typeErr \o fieldErr \o oldEmpty \o newEmpty

\* The second check of the required fields, in run_detection itself.
required_field_absent(old_layer, new_layer) ==
    \E i \in DOMAIN required_fields :
        \/ required_fields[i] \notin old_layer.fields
        \/ required_fields[i] \notin new_layer.fields

-----------------------------------------------------------------------------
(* detect_geometry_changes *)

\* tolerance = 0.001
tolerance == 10

\* threshold_luas = 1.0
threshold_luas == 10000

\* The check of validity made of the old geometry alone.
detect_geometry_changes_old_validity_only(old_feat, new_feat, geos_raises) ==
    LET geom_old == old_feat.geom
        geom_new == new_feat.geom
    IN  IF geos_raises THEN <<FALSE, 0>>
        ELSE IF ~isGeosValid(geom_old) THEN <<FALSE, 0>>
        ELSE LET geometri_sama == equals(geom_old, geom_new, tolerance)
                 selisih_luas  == Abs(area(geom_old) - area(geom_new))
                 perubahan_signifikan == selisih_luas > threshold_luas
             IN  <<(~geometri_sama) \/ perubahan_signifikan, selisih_luas>>

\* An invalid geometry reported as a changed boundary.
detect_geometry_changes_invalid_is_changed(old_feat, new_feat, geos_raises) ==
    LET geom_old == old_feat.geom
        geom_new == new_feat.geom
    IN  IF geos_raises THEN <<FALSE, 0>>
        ELSE IF ~isGeosValid(geom_old) \/ ~isGeosValid(geom_new) THEN <<TRUE, 0>>
        ELSE LET geometri_sama == equals(geom_old, geom_new, tolerance)
                 selisih_luas  == Abs(area(geom_old) - area(geom_new))
                 perubahan_signifikan == selisih_luas > threshold_luas
             IN  <<(~geometri_sama) \/ perubahan_signifikan, selisih_luas>>

\* <<batas berubah, selisih luas>>.  geos_raises: a geometry call raises, which
\* the handler's except branch turns into (False, 0.0).
detect_geometry_changes(old_feat, new_feat, geos_raises) ==
    LET geom_old == old_feat.geom
        geom_new == new_feat.geom
    IN  IF geos_raises THEN <<FALSE, 0>>
        ELSE IF ~isGeosValid(geom_old) \/ ~isGeosValid(geom_new) THEN <<FALSE, 0>>
        ELSE LET geometri_sama == equals(geom_old, geom_new, tolerance)
                 selisih_luas  == Abs(area(geom_old) - area(geom_new))
                 perubahan_signifikan == selisih_luas > threshold_luas
             IN  <<(~geometri_sama) \/ perubahan_signifikan, selisih_luas>>

-----------------------------------------------------------------------------
(* The feature indices *)

\* float(feat["luas"]) if feat["luas"] is not None else 0.0
luas_of(feat) == IF feat.luas = NoneNum THEN 0 ELSE feat.luas[1]

\* feat["kdsubsls"] if "kdsubsls" in feat.fields().names() else None
kdsubsls_of(layer, feat) == IF "kdsubsls" \in layer.fields THEN feat.kdsubsls ELSE None

\* old_features / new_features: a dict keyed by idsubsls, a later feature with
\* the same key overwriting an earlier one.
feature_index(layer) ==
    LET keys == {layer.feats[i].idsubsls : i \in DOMAIN layer.feats}
        last(k) == LET I == {i \in DOMAIN layer.feats : layer.feats[i].idsubsls = k}
                   IN  layer.feats[CHOOSE i \in I : \A j \in I : j <= i]
    IN  [k \in keys |-> [geom     |-> last(k).geom,
                         luas     |-> luas_of(last(k)),
                         kdsubsls |-> kdsubsls_of(layer, last(k)),
                         feature  |-> last(k)]]

-----------------------------------------------------------------------------
(* Stage 0: the duplicate check of the new file *)

\* The test that takes only NULL for a missing code.
is_blank_only_null(kd) == kd = None

\* f["kdsubsls"] is None or str(f["kdsubsls"]).strip() == ""
is_blank(kd) == kd = None \/ kd \in {"", " "}

RECURSIVE Flatten(_)
Flatten(ss) == IF ss = <<>> THEN <<>> ELSE Head(ss) \o Flatten(Tail(ss))

\* The list duplicate_ids_new after the check: the gid groups in the order of
\* their first feature, the members of a group in file order.
duplicate_check(new_layer) ==
    IF "gid" \in new_layer.fields /\ "kdsubsls" \in new_layer.fields
    THEN LET feats   == new_layer.feats
             idx     == [i \in DOMAIN feats |-> i]
             firsts  == SelectSeq(idx, LAMBDA i : \A j \in 1..(i - 1) : feats[j].gid # feats[i].gid)
             members(g) == SelectSeq(feats, LAMBDA f : f.gid = g)
             flagged(g) == LET features == members(g)
                               has_null == \E i \in DOMAIN features : is_blank(features[i].kdsubsls)
                           IN  IF Len(features) > 1 /\ has_null
                               THEN [i \in DOMAIN features |-> features[i].idsubsls]
                               ELSE <<>>
         IN  Flatten([n \in DOMAIN firsts |-> flagged(feats[firsts[n]].gid)])
    ELSE <<>>

\* ', '.join(self.duplicate_ids_new[:5]), called when the list is not empty,
\* raises TypeError unless each of the five is a str.
summary_raises(flags) ==
    \E i \in DOMAIN flags : i <= 5 /\ ~is_str(flags[i])

-----------------------------------------------------------------------------
(* Stage 1: the analysis by idsubsls *)

\* abs(selisih_luas_attr) > 0.001
epsilon_luas == 10

\* The condition without the comparison of the luas attributes.
is_changed_without_luas(old_feat, new_feat, geos_raises) ==
    LET batas_sls_berubah == detect_geometry_changes(old_feat.feature, new_feat.feature,
                                                     geos_raises)[1]
        kdsubsls_changed  == old_feat.kdsubsls # new_feat.kdsubsls
    IN  batas_sls_berubah \/ kdsubsls_changed

\* The condition under which a key of both files is reported.
is_changed(old_feat, new_feat, geos_raises) ==
    LET batas_sls_berubah == detect_geometry_changes(old_feat.feature, new_feat.feature,
                                                     geos_raises)[1]
        selisih_luas_attr == old_feat.luas - new_feat.luas
        kdsubsls_changed  == old_feat.kdsubsls # new_feat.kdsubsls
    IN  batas_sls_berubah \/ kdsubsls_changed \/ Abs(selisih_luas_attr) > epsilon_luas

\* The record appended for a key of both files.
diubah(idsubsls, old_feat, new_feat, geos_raises) ==
    [idsubsls         |-> idsubsls,
     status           |-> "DIUBAH",
     batas_berubah    |-> detect_geometry_changes(old_feat.feature, new_feat.feature,
                                                  geos_raises)[1],
     luas_lama        |-> old_feat.luas,
     luas_baru        |-> new_feat.luas,
     selisih_luas     |-> old_feat.luas - new_feat.luas,
     kdsubsls_lama    |-> old_feat.kdsubsls,
     kdsubsls_baru    |-> new_feat.kdsubsls,
     kdsubsls_changed |-> old_feat.kdsubsls # new_feat.kdsubsls,
     type             |-> "by_id",
     geom             |-> new_feat.geom]

\* The record of an added key with the sign of selisih_luas lost.
ditambahkan_unsigned(idsubsls, new_feat) ==
    [idsubsls         |-> idsubsls,
     status           |-> "DITAMBAHKAN",
     batas_berubah    |-> FALSE,
     luas_lama        |-> 0,
     luas_baru        |-> new_feat.luas,
     selisih_luas     |-> new_feat.luas,
     kdsubsls_lama    |-> None,
     kdsubsls_baru    |-> new_feat.kdsubsls,
     kdsubsls_changed |-> FALSE,
     type             |-> "by_id",
     geom             |-> new_feat.geom]

\* The record appended for a key of the new file only.
ditambahkan(idsubsls, new_feat) ==
    [idsubsls         |-> idsubsls,
     status           |-> "DITAMBAHKAN",
     batas_berubah    |-> FALSE,
     luas_lama        |-> 0,
     luas_baru        |-> new_feat.luas,
     selisih_luas     |-> -new_feat.luas,
     kdsubsls_lama    |-> None,
     kdsubsls_baru    |-> new_feat.kdsubsls,
     kdsubsls_changed |-> FALSE,
     type             |-> "by_id",
     geom             |-> new_feat.geom]

\* The record of a removed key with old minus new taken as new minus old.
dihapus_negated(idsubsls, old_feat) ==
    [idsubsls         |-> idsubsls,
     status           |-> "DIHAPUS",
     batas_berubah    |-> FALSE,
     luas_lama        |-> old_feat.luas,
     luas_baru        |-> 0,
     selisih_luas     |-> -old_feat.luas,
     kdsubsls_lama    |-> old_feat.kdsubsls,
     kdsubsls_baru    |-> None,
     kdsubsls_changed |-> FALSE,
     type             |-> "by_id",
     geom             |-> NullGeom]

\* The record appended for a key of the old file only.
dihapus(idsubsls, old_feat) ==
    [idsubsls         |-> idsubsls,
     status           |-> "DIHAPUS",
     batas_berubah    |-> FALSE,
     luas_lama        |-> old_feat.luas,
     luas_baru        |-> 0,
     selisih_luas     |-> old_feat.luas,
     kdsubsls_lama    |-> old_feat.kdsubsls,
     kdsubsls_baru    |-> None,
     kdsubsls_changed |-> FALSE,
     type             |-> "by_id",
     geom             |-> NullGeom]

\* The three loops over the key sets.  both, added, removed: the orders in
\* which the three Python sets are iterated.
classify(old_features, new_features, geos_raises, both, added, removed) ==
    LET kept == SelectSeq(both, LAMBDA k : is_changed(old_features[k], new_features[k],
                                                      geos_raises))
    IN     [i \in DOMAIN kept |-> diubah(kept[i], old_features[kept[i]],
                                         new_features[kept[i]], geos_raises)]
        \o [i \in DOMAIN added |-> ditambahkan(added[i], new_features[added[i]])]
        \o [i \in DOMAIN removed |-> dihapus(removed[i], old_features[removed[i]])]

-----------------------------------------------------------------------------
(* Stage 2: the spatial analysis *)

\* One behaviour of the engine during a run.  mode: "ok", or the call that
\* raises if the run reaches it ("unavailable": the import of processing);
\* joined: the features of the layer native:joinattributesbylocation returns;
\* geos_raises: a geometry call of detect_geometry_changes raises.
Env(mode, joined, geos_raises) == [mode |-> mode, joined |-> joined, geos_raises |-> geos_raises]

\* A feature of the joined difference layer.  has_field: the layer has a field
\* named idsubsls; idsubsls: its value, None where the join matched nothing.
Joined(fid, has_field, idsubsls, g) ==
    [fid |-> fid, has_field |-> has_field, idsubsls |-> idsubsls, geom |-> g]

\* The dictionary enhanced_spatial_analysis returns, as the set of its keys:
\* an exception of any of its three overlay calls empties it.
enhanced_spatial_analysis(env) ==
    IF env.mode = "symdiff_raises" THEN {}
    ELSE {"symmetrical", "added_areas", "removed_areas"}

\* The record appended for a feature of the joined layer.
perubahan_spasial(feat) ==
    [idsubsls         |-> IF feat.has_field THEN feat.idsubsls
                          ELSE "SPASIAL_" \o ToString(feat.fid),
     status           |-> "PERUBAHAN_SPASIAL",
     batas_berubah    |-> TRUE,
     luas_lama        |-> 0,
     luas_baru        |-> area(feat.geom),
     selisih_luas     |-> area(feat.geom),
     kdsubsls_lama    |-> None,
     kdsubsls_baru    |-> None,
     kdsubsls_changed |-> FALSE,
     type             |-> "spatial",
     area             |-> area(feat.geom),
     geom             |-> feat.geom]

\* run_spatial_analysis without the reset of self.spatial_changes in the branch
\* taken when there is no symmetrical difference layer.
run_spatial_analysis_no_reset(old_layer, new_layer, env, prev) ==
    IF env.mode = "unavailable"
    THEN [raised |-> FALSE, spatial_changes |-> prev]
    ELSE IF old_layer.crs # new_layer.crs /\ env.mode = "reproject_raises"
    THEN [raised |-> TRUE, spatial_changes |-> prev]
    ELSE IF "symmetrical" \in enhanced_spatial_analysis(env)
    THEN IF env.mode = "join_raises"
         THEN [raised |-> TRUE, spatial_changes |-> prev]
         ELSE LET with_geom == SelectSeq(env.joined, LAMBDA f : ~f.geom.null)
              IN  [raised |-> FALSE,
                   spatial_changes |-> [i \in DOMAIN with_geom |->
                                            perubahan_spasial(with_geom[i])]]
    ELSE [raised |-> FALSE, spatial_changes |-> prev]

\* run_spatial_analysis: whether an exception leaves it, and self.spatial_changes
\* when it ends (prev: self.spatial_changes when it starts).
run_spatial_analysis(old_layer, new_layer, env, prev) ==
    IF env.mode = "unavailable"
    THEN [raised |-> FALSE, spatial_changes |-> prev]
    ELSE IF old_layer.crs # new_layer.crs /\ env.mode = "reproject_raises"
    THEN [raised |-> TRUE, spatial_changes |-> prev]
    ELSE IF "symmetrical" \in enhanced_spatial_analysis(env)
    THEN IF env.mode = "join_raises"
         THEN [raised |-> TRUE, spatial_changes |-> prev]
         ELSE LET with_geom == SelectSeq(env.joined, LAMBDA f : ~f.geom.null)
              IN  [raised |-> FALSE,
                   spatial_changes |-> [i \in DOMAIN with_geom |->
                                            perubahan_spasial(with_geom[i])]]
    ELSE [raised |-> FALSE, spatial_changes |-> <<>>]

-----------------------------------------------------------------------------
(* run_detection *)

NoEnv == Env("none", <<>>, FALSE)

\* The run repeats the latest one: the same two files, the same behaviour of
\* the engine, and both reached the analysis by idsubsls.
repeats(old_path, new_path, env) ==
    /\ last_run.outcome \in {"completed", "raised"}
    /\ last_run.old_path = old_path
    /\ last_run.new_path = new_path
    /\ last_run.env = env

\* A return before the analysis: the results of the dialog stay as they are.
early_return(old_path, new_path, outcome) ==
    /\ last_run' = [old_path |-> old_path, new_path |-> new_path, env |-> NoEnv,
                    outcome |-> outcome, repeated |-> FALSE]
    /\ UNCHANGED <<changes_by_id, spatial_changes, combined_report, duplicate_ids_new>>

\* The summary of the duplicate check raises: the flags are set, and nothing
\* after line 270 runs.
raise_in_check(old_path, new_path, flags) ==
    /\ duplicate_ids_new' = flags
    /\ last_run' = [old_path |-> old_path, new_path |-> new_path, env |-> NoEnv,
                    outcome |-> "raised_in_check", repeated |-> FALSE]
    /\ UNCHANGED <<changes_by_id, spatial_changes, combined_report>>

\* self.changes_by_id = [] and the records appended to it since.
append_without_reset(prev, records) == prev \o records

reset_and_append(prev, records) == records

\* The merge with the spatial changes put first.
merge_spatial_first(by_id, spatial) == spatial \o by_id

\* Stage 3: combined_report = changes_by_id.copy(), then every spatial change appended.
merge(by_id, spatial) == by_id \o spatial

\* The stages from the duplicate check on, for two layers that passed the
\* checks: the engine behaves in one of its ways.
analyse(old_path, new_path) ==
    LET old_layer    == disk[old_path]
        new_layer    == disk[new_path]
        flags        == duplicate_check(new_layer)
        old_features == feature_index(old_layer)
        new_features == feature_index(new_layer)
        old_keys     == DOMAIN old_features
        new_keys     == DOMAIN new_features
    IN  IF summary_raises(flags)
        THEN raise_in_check(old_path, new_path, flags)
        ELSE \E env \in engine :
          LET by_id   == reset_and_append(changes_by_id,
                             classify(old_features, new_features, env.geos_raises,
                                      iterate(old_keys \cap new_keys),
                                      iterate(new_keys \ old_keys),
                                      iterate(old_keys \ new_keys)))
              spatial == run_spatial_analysis(old_layer, new_layer, env, spatial_changes)
          IN  /\ duplicate_ids_new' = flags
              /\ changes_by_id' = by_id
              /\ spatial_changes' = spatial.spatial_changes
              /\ combined_report' = IF spatial.raised THEN combined_report
                                    ELSE merge(by_id, spatial.spatial_changes)
              /\ last_run' = [old_path |-> old_path, new_path |-> new_path, env |-> env,
                              outcome |-> IF spatial.raised THEN "raised" ELSE "completed",
                              repeated |-> repeats(old_path, new_path, env)]

\* The handler of the run button, for the two paths of the line edits.
run_detection(old_path, new_path) ==
    /\ UNCHANGED <<disk, engine, hash_order>>
    /\ IF old_path = "" \/ new_path = ""
       THEN early_return(old_path, new_path, "no_path")
       ELSE IF ~disk[old_path].exists \/ ~disk[new_path].exists
       THEN early_return(old_path, new_path, "not_found")
       ELSE IF ~disk[old_path].valid \/ ~disk[new_path].valid
       THEN early_return(old_path, new_path, "load_failed")
       ELSE IF validate_layers(disk[old_path], disk[new_path]) # <<>>
       THEN early_return(old_path, new_path, "validation_error")
       ELSE IF required_field_absent(disk[old_path], disk[new_path])
       THEN early_return(old_path, new_path, "field_missing")
       ELSE analyse(old_path, new_path)

NoRun == [old_path |-> "", new_path |-> "", env |-> NoEnv, outcome |-> "none",
          repeated |-> FALSE]

\* The keys of the files that have the field idsubsls.
KeysOn(files) ==
    UNION {{files[p].feats[i].idsubsls : i \in DOMAIN files[p].feats} :
              p \in {q \in DOMAIN files : "idsubsls" \in files[q].fields}}

\* The dialog after __init__, with the files of one of `disks` and an engine
\* that behaves in the ways of `behaviours`.
InitWith(disks, behaviours) ==
    /\ changes_by_id = <<>>
    /\ spatial_changes = <<>>
    /\ combined_report = <<>>
    /\ duplicate_ids_new = <<>>
    /\ last_run = NoRun
    /\ disk \in disks
    /\ engine = behaviours
    /\ hash_order \in Orders(KeysOn(disk))

Next == \E old_path \in DOMAIN disk, new_path \in DOMAIN disk :
            run_detection(old_path, new_path)

-----------------------------------------------------------------------------
(* The data sets of the specifications *)

\* The most features a generated layer holds.
MaxFeats == 2

\* The sequences over S of length 1..n.
SeqsUpTo(S, n) == UNION {[1..m -> S] : m \in 1..n}

\* Rectangles: a base, one within the tolerance of it, one far from it, one of
\* another shape and the same area, two wide ones within the tolerance of each
\* other whose areas differ by more than the threshold, and an invalid one.
Geoms == {Geom(TRUE, 1, 1000000), Geom(TRUE, 1, 1000005), Geom(TRUE, 1, 1050000),
          Geom(TRUE, 2, 500000), Geom(TRUE, 3000, 500000), Geom(TRUE, 3000, 500005),
          Geom(FALSE, 1, 1000000)}

\* luas: absent, 100.0, 100.0005, 105.0
LuasValues == {NoneNum, <<1000000>>, <<1000005>>, <<1050000>>}

KdValues == {None, "X", "Y"}

Polygons(feats) == Layer(AllFields, "EPSG:32748", "Polygon", feats)

\* Layers of one feature with key A, over every attribute and geometry value.
PairLayers ==
    {Polygons(<<Feature("A", l, kd, 7, g)>>) : l \in LuasValues, kd \in KdValues, g \in Geoms}

\* The layers of PairLayers a pair is compared against.
BaseLayers ==
    {Polygons(<<Feature("A", l, kd, 7, g)>>) :
        l \in {NoneNum, <<1000000>>}, kd \in {None, "X"},
        g \in {Geom(TRUE, 1, 1000000), Geom(TRUE, 3000, 500000), Geom(FALSE, 1, 1000000)}}

\* Layers of up to MaxFeats features over two keys, a key possibly repeated.
KeyLayers ==
    {Polygons(feats) :
        feats \in SeqsUpTo({Feature("A", <<1000000>>, "X", 7, Geom(TRUE, 1, 1000000)),
                            Feature("A", <<1050000>>, "X", 7, Geom(TRUE, 1, 1000000)),
                            Feature("B", <<1000000>>, "X", 7, Geom(TRUE, 1, 1000000))},
                           MaxFeats)}

\* Two files: a base layer and any one-feature layer, or two layers of several keys.
ClassifyDisks ==
    {[p \in {"lama.gpkg", "baru.gpkg"} |-> IF p = "lama.gpkg" THEN pair[1] ELSE pair[2]] :
        pair \in (BaseLayers \X PairLayers) \cup (KeyLayers \X KeyLayers)}

\* An engine that is available and finds no difference polygon.
ClassifyEngine == {Env("ok", <<>>, FALSE), Env("ok", <<>>, TRUE)}

\* No list of these runs has two records of one status, so one order of the
\* keys stands for all.
InitClassify ==
    /\ InitWith(ClassifyDisks, ClassifyEngine)
    /\ hash_order = SelectSeq(<<"A", "B">>, LAMBDA k : k \in Range(hash_order))

\* Runs over every pair of the generated layers, with a working engine.
SpecClassify == InitClassify /\ [][Next]_vars

\* The layer without a field: the schema lacks it and no feature has a value for it.
WithoutField(layer, field) ==
    [layer EXCEPT !.fields = @ \ {field},
                  !.feats = [i \in DOMAIN @ |->
                      CASE field = "luas"     -> [@[i] EXCEPT !.luas = NoneNum]
                        [] field = "kdsubsls" -> [@[i] EXCEPT !.kdsubsls = None]
                        [] field = "idsubsls" -> [@[i] EXCEPT !.idsubsls = None]
                        [] OTHER              -> [@[i] EXCEPT !.gid = 0]]]

FeatA == Feature("A", <<1000000>>, "X", 7, Geom(TRUE, 1, 1000000))

FeatA105 == Feature("A", <<1050000>>, "X", 7, Geom(TRUE, 1, 1000000))

FeatB == Feature("B", <<1000000>>, None, 7, Geom(TRUE, 1, 1000000))

\* The files of the general specification: three sound layers (one in another
\* CRS), and layers that fail one check of run_detection or validate_layers each.
SoundLayers == {Polygons(<<FeatA>>),
                Polygons(<<FeatA105, FeatB>>),
                Layer(AllFields, "EPSG:4326", "Polygon", <<FeatB>>),
                WithoutField(WithoutField(Polygons(<<FeatA105, FeatB>>), "gid"), "kdsubsls")}

FaultyLayers == {Unreadable,
                 WithoutField(Polygons(<<FeatA>>), "luas"),
                 WithoutField(Polygons(<<FeatA>>), "idsubsls"),
                 Polygons(<<>>),
                 Layer(AllFields, "", "Polygon", <<FeatA>>),
                 Layer(AllFields, "EPSG:32748", "Line", <<FeatA>>)}

\* Two files, the empty path and the path of no file.
GeneralDisks ==
    {[p \in {"", "hilang.gpkg", "lama.gpkg", "baru.gpkg"} |->
         CASE p = "lama.gpkg" -> pair[1]
           [] p = "baru.gpkg" -> pair[2]
           [] OTHER           -> NoFile] :
        pair \in (SoundLayers \cup FaultyLayers) \X (SoundLayers \cup FaultyLayers)}

\* A difference polygon joined to feature A.
JoinedOne == <<Joined(1, TRUE, "A", Geom(TRUE, 1, 20000))>>

\* A polygon the join matched to nothing, one of a layer without the field,
\* and a feature with an empty geometry.
JoinedMixed == <<Joined(1, TRUE, None, Geom(TRUE, 1, 30000)),
                 Joined(2, FALSE, None, Geom(TRUE, 1, 40000)),
                 Joined(3, TRUE, "B", NullGeom)>>

\* Every behaviour of the engine: working (with three results of the join),
\* not importable, and each of its calls raising.
GeneralEngine == {Env("ok", <<>>, FALSE), Env("ok", JoinedOne, FALSE),
                  Env("ok", JoinedMixed, TRUE),
                  Env("unavailable", <<>>, FALSE),
                  Env("reproject_raises", JoinedOne, FALSE),
                  Env("symdiff_raises", <<>>, FALSE),
                  Env("join_raises", <<>>, FALSE)}

Init == InitWith(GeneralDisks, GeneralEngine)

\* Sequences of runs over sound and faulty files, with every engine behaviour.
Spec == Init /\ [][Next]_vars

\* kdsubsls of the grouped layers: NULL, empty, and a code.
GroupKdValues == {None, "", "X"}

GroupGids == {7, 8}

\* Layers of up to MaxFeats features over two keys, in every grouping by gid
\* and with every code.
GroupedLayers(keys) ==
    {Polygons(feats) :
        feats \in SeqsUpTo({Feature(k, <<1000000>>, kd, gid, Geom(TRUE, 1, 1000000)) :
                               k \in keys, kd \in GroupKdValues, gid \in GroupGids},
                           MaxFeats)}

\* An old file of one changed feature, and a new file of grouped features: the
\* keys of both are strings, or both are integers.
GroupedDisks ==
    {[p \in {"lama.gpkg", "baru.gpkg"} |-> IF p = "lama.gpkg" THEN pair[1] ELSE pair[2]] :
        pair \in ({Polygons(<<Feature("A", <<1050000>>, "X", 7, Geom(TRUE, 1, 1000000))>>)}
                     \X GroupedLayers({"A", "B"}))
             \cup ({Polygons(<<Feature("1", <<1050000>>, "X", 7, Geom(TRUE, 1, 1000000))>>)}
                     \X GroupedLayers(IntegerKeys))}

\* Files of two keys each, in both file orders and with two values of luas.
RepeatLayers ==
    {Polygons(<<first, second>>) :
        first \in {FeatA, FeatA105}, second \in {FeatB, [FeatB EXCEPT !.luas = <<1050000>>]}}
    \cup
    {Polygons(<<first, second>>) :
        first \in {FeatB, [FeatB EXCEPT !.luas = <<1050000>>]}, second \in {FeatA, FeatA105}}

RepeatDisks ==
    {[p \in {"lama.gpkg", "baru.gpkg"} |-> IF p = "lama.gpkg" THEN pair[1] ELSE pair[2]] :
        pair \in RepeatLayers \X RepeatLayers}

InitRepeat ==
    InitWith(RepeatDisks, {Env("ok", <<>>, FALSE), Env("ok", JoinedOne, FALSE),
                           Env("symdiff_raises", <<>>, FALSE)})

\* Runs over files of two keys, so that a list of changes has an order.
SpecRepeat == InitRepeat /\ [][Next]_vars

InitGrouped == InitWith(GroupedDisks, {Env("ok", <<>>, FALSE)})

\* Runs over new files whose features share gid values, with a working engine.
SpecGrouped == InitGrouped /\ [][Next]_vars

-----------------------------------------------------------------------------
(* The latest run, as the properties read it *)

\* The latest run built the indices and ran the analysis by idsubsls.
Analysed == last_run.outcome \in {"completed", "raised"}

OldIndex == feature_index(disk[last_run.old_path])

NewIndex == feature_index(disk[last_run.new_path])

BothKeys == (DOMAIN OldIndex) \cap (DOMAIN NewIndex)

\* The positions of changes_by_id that hold a record of the key.
RecordsOf(k) == {i \in DOMAIN changes_by_id : changes_by_id[i].idsubsls = k}

\* batas_sls_berubah of the pair of the key in the latest run.
BatasBerubah(k) ==
    detect_geometry_changes(OldIndex[k].feature, NewIndex[k].feature,
                            last_run.env.geos_raises)[1]

KdChanged(k) == OldIndex[k].kdsubsls # NewIndex[k].kdsubsls

LuasDelta(k) == OldIndex[k].luas - NewIndex[k].luas

-----------------------------------------------------------------------------
(* C1 *)

\* C1: for every key of both indices the by-id pass emits a DIUBAH record iff
\* the boundary changed, or kdsubsls differs, or the luas attributes differ by
\* more than 0.001; a pair with none of the three has no record at all.
C1_DiubahIffAnyChange ==
    Analysed =>
        \A k \in BothKeys :
            LET any == BatasBerubah(k) \/ KdChanged(k) \/ Abs(LuasDelta(k)) > 10
            IN  /\ any <=> (\E i \in RecordsOf(k) : changes_by_id[i].status = "DIUBAH")
                /\ ~any => RecordsOf(k) = {}

\* A run with a key reported for its area attribute alone and a key left out.
C1_Witness ==
    /\ Analysed
    /\ \E k \in BothKeys :
          /\ ~BatasBerubah(k) /\ ~KdChanged(k) /\ Abs(LuasDelta(k)) > 10
          /\ \E i \in RecordsOf(k) : changes_by_id[i].status = "DIUBAH"
    /\ \E k \in BothKeys :
          /\ ~BatasBerubah(k) /\ ~KdChanged(k) /\ Abs(LuasDelta(k)) <= 10
          /\ RecordsOf(k) = {}

-----------------------------------------------------------------------------
(* C2 *)

\* C2: every key of the new index alone has exactly one record, which is
\* DITAMBAHKAN with luas_lama = 0 and selisih_luas = -luas_baru.
C2_AddedExactlyOnce ==
    Analysed =>
        \A k \in (DOMAIN NewIndex) \ (DOMAIN OldIndex) :
            /\ Cardinality(RecordsOf(k)) = 1
            /\ \A i \in RecordsOf(k) :
                  /\ changes_by_id[i].status = "DITAMBAHKAN"
                  /\ changes_by_id[i].luas_lama = 0
                  /\ changes_by_id[i].luas_baru = NewIndex[k].luas
                  /\ changes_by_id[i].selisih_luas = -changes_by_id[i].luas_baru

\* A run with a key of the new file alone, of a positive area.
C2_Witness ==
    /\ Analysed
    /\ \E k \in (DOMAIN NewIndex) \ (DOMAIN OldIndex) :
          \E i \in RecordsOf(k) : /\ changes_by_id[i].status = "DITAMBAHKAN"
                                   /\ changes_by_id[i].luas_baru > 0

-----------------------------------------------------------------------------
(* C3 *)

\* C3: every key of the old index alone has exactly one record, which is
\* DIHAPUS with luas_baru = 0 and selisih_luas = luas_lama.
C3_RemovedExactlyOnce ==
    Analysed =>
        \A k \in (DOMAIN OldIndex) \ (DOMAIN NewIndex) :
            /\ Cardinality(RecordsOf(k)) = 1
            /\ \A i \in RecordsOf(k) :
                  /\ changes_by_id[i].status = "DIHAPUS"
                  /\ changes_by_id[i].luas_baru = 0
                  /\ changes_by_id[i].luas_lama = OldIndex[k].luas
                  /\ changes_by_id[i].selisih_luas = changes_by_id[i].luas_lama

\* A run with a key of the old file alone, of a positive area.
C3_Witness ==
    /\ Analysed
    /\ \E k \in (DOMAIN OldIndex) \ (DOMAIN NewIndex) :
          \E i \in RecordsOf(k) : /\ changes_by_id[i].status = "DIHAPUS"
                                   /\ changes_by_id[i].luas_lama > 0

-----------------------------------------------------------------------------
(* C5 *)

\* C5: for a key of both indices, batas_berubah is true whenever the geometries
\* are unequal beyond the tolerance or the luas attributes differ by more than
\* the area threshold (1.0); the key is then reported as DIUBAH with
\* batas_berubah true.  Stated for pairs of valid geometries in a run in which
\* no geometry call raises.
C5_BatasBerubahSuperset ==
    Analysed =>
        \A k \in BothKeys :
            (/\ ~last_run.env.geos_raises
             /\ isGeosValid(OldIndex[k].geom) /\ isGeosValid(NewIndex[k].geom)
             /\ \/ ~equals(OldIndex[k].geom, NewIndex[k].geom, tolerance)
                \/ Abs(LuasDelta(k)) > threshold_luas)
            => \E i \in RecordsOf(k) : /\ changes_by_id[i].status = "DIUBAH"
                                        /\ changes_by_id[i].batas_berubah

-----------------------------------------------------------------------------
(* C10 *)

\* C10: a key of both indices whose old or new geometry fails the validity
\* check is reported as DIUBAH with batas_berubah true.
C10_InvalidGeometryIsChanged ==
    Analysed =>
        \A k \in BothKeys :
            (~isGeosValid(OldIndex[k].geom) \/ ~isGeosValid(NewIndex[k].geom))
            => \E i \in RecordsOf(k) : /\ changes_by_id[i].status = "DIUBAH"
                                        /\ changes_by_id[i].batas_berubah

-----------------------------------------------------------------------------
(* C4 *)

\* C4: after a completed run combined_report is changes_by_id followed by
\* spatial_changes, each in its order, nothing dropped, repeated or interleaved:
\* its length is the sum of the two lengths, its first entries are
\* changes_by_id and the remaining ones spatial_changes.
C4_MergeIsConcatenation ==
    last_run.outcome = "completed" =>
        /\ Len(combined_report) = Len(changes_by_id) + Len(spatial_changes)
        /\ \A i \in DOMAIN changes_by_id : combined_report[i] = changes_by_id[i]
        /\ \A j \in DOMAIN spatial_changes :
              combined_report[Len(changes_by_id) + j] = spatial_changes[j]

\* A completed run with by-id changes and spatial changes.
C4_Witness ==
    /\ last_run.outcome = "completed"
    /\ Len(changes_by_id) > 1
    /\ Len(spatial_changes) > 1

-----------------------------------------------------------------------------
(* C6 *)

\* C6: a run whose symmetrical difference raises completes with no spatial
\* change, and its report is its by-id changes.
C6_SymdiffFailureDegrades ==
    last_run.env.mode = "symdiff_raises" =>
        /\ last_run.outcome = "completed"
        /\ spatial_changes = <<>>
        /\ combined_report = changes_by_id

\* Such a run with by-id changes to report.
C6_Witness ==
    /\ last_run.env.mode = "symdiff_raises"
    /\ last_run.outcome = "completed"
    /\ changes_by_id # <<>>

-----------------------------------------------------------------------------
(* C7 *)

\* C7: every run in which the processing module cannot be imported completes
\* with no spatial change, and its report is its by-id changes.
C7_EngineUnavailableDegrades ==
    last_run.env.mode = "unavailable" =>
        /\ last_run.outcome = "completed"
        /\ spatial_changes = <<>>
        /\ combined_report = changes_by_id

-----------------------------------------------------------------------------
(* C8 *)

\* The reprojection (called when the CRSs differ) or the join raised in the
\* latest run.
ReprojectOrJoinRaised ==
    \/ last_run.env.mode = "join_raises"
    \/ /\ last_run.env.mode = "reproject_raises"
       /\ disk[last_run.old_path].crs # disk[last_run.new_path].crs

\* C8: a run whose reprojection or spatial join raises completes, and its
\* report is its by-id changes with no spatial entry.
C8_ReprojectJoinFailureDegrades ==
    ReprojectOrJoinRaised =>
        /\ last_run.outcome = "completed"
        /\ combined_report = changes_by_id

-----------------------------------------------------------------------------
(* C9 *)

\* A step is a run on two readable files of which one lacks idsubsls or luas.
RunWithoutRequiredField ==
    /\ last_run' # last_run
    /\ last_run'.old_path # "" /\ last_run'.new_path # ""
    /\ disk[last_run'.old_path].valid /\ disk[last_run'.new_path].valid
    /\ \E f \in {"idsubsls", "luas"} :
          \/ f \notin disk[last_run'.old_path].fields
          \/ f \notin disk[last_run'.new_path].fields

\* C9: a run on a file without idsubsls or luas ends at the schema validation
\* and leaves every result of the dialog as it was.
C9_SchemaFailureIsTerminal ==
    [][RunWithoutRequiredField =>
          /\ last_run'.outcome = "validation_error"
          /\ UNCHANGED <<changes_by_id, spatial_changes, combined_report,
                         duplicate_ids_new>>]_vars

\* A run stopped at the validation for a missing field, after a run that reported.
C9_Witness ==
    /\ last_run.outcome = "validation_error"
    /\ \E f \in {"idsubsls", "luas"} :
          \/ f \notin disk[last_run.old_path].fields
          \/ f \notin disk[last_run.new_path].fields
    /\ combined_report # <<>>

-----------------------------------------------------------------------------
(* The duplicate check *)

\* The latest run reached the duplicate check.
Checked == last_run.outcome \in {"completed", "raised", "raised_in_check"}

\* The code is missing or blank.
MissingOrBlank(kd) == kd = None \/ kd = "" \/ kd = " "

\* The keys of the features of a layer whose gid group has more than one
\* member, one of them without a code.
IncompleteGroupKeys(layer) ==
    LET feats == layer.feats
    IN  {feats[i].idsubsls : i \in
            {i \in DOMAIN feats :
                /\ \E j \in DOMAIN feats : j # i /\ feats[j].gid = feats[i].gid
                /\ \E m \in DOMAIN feats : /\ feats[m].gid = feats[i].gid
                                            /\ MissingOrBlank(feats[m].kdsubsls)}}

\* C11: when the new file has the fields gid and kdsubsls, duplicate_ids_new
\* after the duplicate check holds exactly the keys of the members of every
\* gid group that has more than one member and a member whose kdsubsls is
\* missing or blank.
C11_FlagsAreIncompleteGroups ==
    (Checked /\ {"gid", "kdsubsls"} \subseteq disk[last_run.new_path].fields)
        => Range(duplicate_ids_new) = IncompleteGroupKeys(disk[last_run.new_path])

\* A new file with a flagged group whose blank code is an empty string, and
\* the run went through.
C11_Witness ==
    /\ last_run.outcome = "completed"
    /\ duplicate_ids_new # <<>>
    /\ \A i \in DOMAIN disk[last_run.new_path].feats :
           disk[last_run.new_path].feats[i].kdsubsls # None

-----------------------------------------------------------------------------
(* C12 *)

\* The layer with every feature in a gid group of its own.
Regrouped(layer) ==
    [layer EXCEPT !.feats = [i \in DOMAIN @ |-> [@[i] EXCEPT !.gid = i]]]

\* The list the analysis by idsubsls builds for two layers.
by_id_of(old_layer, new_layer, geos_raises) ==
    LET old_features == feature_index(old_layer)
        new_features == feature_index(new_layer)
        old_keys     == DOMAIN old_features
        new_keys     == DOMAIN new_features
    IN  classify(old_features, new_features, geos_raises,
                 iterate(old_keys \cap new_keys),
                 iterate(new_keys \ old_keys),
                 iterate(old_keys \ new_keys))

\* C12: the flags are advisory: the run leaves the list of changes by idsubsls
\* and the merged report that a run on the same records with other gid values
\* (here: no two features in one gid group, so that nothing is flagged) leaves.
C12_FlagsAreAdvisory ==
    Checked =>
        LET unflagged == by_id_of(disk[last_run.old_path],
                                  Regrouped(disk[last_run.new_path]),
                                  last_run.env.geos_raises)
        IN  /\ changes_by_id = unflagged
            /\ combined_report = unflagged \o spatial_changes

-----------------------------------------------------------------------------
(* C13 *)

\* C13: every record of spatial_changes has an identifier that is not null:
\* the key of the new feature the polygon was joined to, or a placeholder
\* SPASIAL_<n> for a polygon joined to none.
C13_SpatialRecordHasIdentifier ==
    \A i \in DOMAIN spatial_changes : spatial_changes[i].idsubsls # None

-----------------------------------------------------------------------------
(* C14 *)

\* C14: a run with the inputs of the run before it leaves the same report,
\* entry for entry and in the same order; nothing of the changes_by_id of the
\* first run is carried into the second.
C14_RepeatedRunSameReport ==
    [][(/\ Analysed
        /\ last_run'.outcome = last_run.outcome
        /\ last_run'.old_path = last_run.old_path
        /\ last_run'.new_path = last_run.new_path
        /\ last_run'.env = last_run.env)
       => /\ changes_by_id' = changes_by_id
          /\ combined_report' = combined_report]_vars

\* A second run with the inputs of the first, whose list holds two records of
\* one status and whose report ends with a spatial record.
C14_Witness ==
    /\ last_run.repeated
    /\ last_run.outcome = "completed"
    /\ \E i, j \in DOMAIN changes_by_id :
          i # j /\ changes_by_id[i].status = changes_by_id[j].status
    /\ spatial_changes # <<>>

-----------------------------------------------------------------------------
(* C15 *)

\* The list of the analysis by idsubsls with the two files of the latest run
\* swapped.
Swapped ==
    by_id_of(disk[last_run.new_path], disk[last_run.old_path], last_run.env.geos_raises)

KeysWith(records, status) ==
    {records[i].idsubsls : i \in {j \in DOMAIN records : records[j].status = status}}

\* C15: with old and new swapped the same keys are DIUBAH, each with
\* selisih_luas negated and with the same batas_berubah and kdsubsls_changed;
\* the DITAMBAHKAN keys of one direction are the DIHAPUS keys of the other.
C15_SwapSymmetry ==
    Analysed =>
        /\ KeysWith(changes_by_id, "DIUBAH") = KeysWith(Swapped, "DIUBAH")
        /\ \A i \in DOMAIN changes_by_id, j \in DOMAIN Swapped :
              (/\ changes_by_id[i].status = "DIUBAH"
               /\ Swapped[j].status = "DIUBAH"
               /\ changes_by_id[i].idsubsls = Swapped[j].idsubsls)
              => /\ Swapped[j].selisih_luas = -changes_by_id[i].selisih_luas
                 /\ Swapped[j].batas_berubah = changes_by_id[i].batas_berubah
                 /\ Swapped[j].kdsubsls_changed = changes_by_id[i].kdsubsls_changed
        /\ KeysWith(changes_by_id, "DITAMBAHKAN") = KeysWith(Swapped, "DIHAPUS")
        /\ KeysWith(changes_by_id, "DIHAPUS") = KeysWith(Swapped, "DITAMBAHKAN")

\* A run over two different files with a changed key whose boundary changed
\* and whose luas differs.
C15_Witness ==
    /\ Analysed
    /\ last_run.old_path # last_run.new_path
    /\ \E i \in DOMAIN changes_by_id :
          /\ changes_by_id[i].status = "DIUBAH"
          /\ changes_by_id[i].batas_berubah
          /\ changes_by_id[i].selisih_luas # 0

-----------------------------------------------------------------------------
(* C16 *)

\* not geom_old.equals(geom_new, tolerance), for the pair of the key
GeometryUnequal(k) == ~equals(OldIndex[k].geom, NewIndex[k].geom, tolerance)

\* abs(geom_old.area() - geom_new.area()) > threshold_luas, for the pair of the key
AreaBeyondThreshold(k) ==
    Abs(area(OldIndex[k].geom) - area(NewIndex[k].geom)) > threshold_luas

\* The keys of both indices reported as DIUBAH with batas_berubah true.
BoundaryChangedKeys ==
    {k \in BothKeys : \E i \in RecordsOf(k) : /\ changes_by_id[i].status = "DIUBAH"
                                               /\ changes_by_id[i].batas_berubah}

\* C16 as stated: for every DIUBAH record with batas_berubah true exactly one
\* of the two reasons holds (the geometries are unequal beyond the tolerance,
\* or the area delta is beyond the threshold), not both.
C16_ExactlyOneReason ==
    Analysed =>
        \A k \in BoundaryChangedKeys : GeometryUnequal(k) # AreaBeyondThreshold(k)

\* C16, amended: for every DIUBAH record with batas_berubah true at least one
\* of the two reasons holds: the geometries are unequal beyond the tolerance,
\* or the areas of the geometries differ by more than the threshold; both may
\* hold.
C16_AtLeastOneReason ==
    Analysed =>
        \A k \in BoundaryChangedKeys : GeometryUnequal(k) \/ AreaBeyondThreshold(k)

\* A record with batas_berubah true for which both reasons hold.
C16_Witness ==
    /\ Analysed
    /\ \E k \in BoundaryChangedKeys : GeometryUnequal(k) /\ AreaBeyondThreshold(k)

-----------------------------------------------------------------------------
(* C17 *)

\* The two files pass every check of run_detection before the duplicate check.
Analysable(old_path, new_path) ==
    /\ old_path # "" /\ new_path # ""
    /\ disk[old_path].exists /\ disk[new_path].exists
    /\ disk[old_path].valid /\ disk[new_path].valid
    /\ validate_layers(disk[old_path], disk[new_path]) = <<>>
    /\ ~required_field_absent(disk[old_path], disk[new_path])

IsPrefix(s, t) == Len(s) <= Len(t) /\ SubSeq(t, 1, Len(s)) = s

\* C17: between runs, whatever runs came before (completed, rejected, or
\* ended by an exception), combined_report is changes_by_id followed by
\* spatial_changes, and duplicate_ids_new is the list of flags of the run that
\* produced combined_report: no run, or a run whose flags are duplicate_ids_new
\* and whose list of changes by idsubsls combined_report begins with.
C17_ResultsOfOneRun ==
    /\ combined_report = changes_by_id \o spatial_changes
    /\ \/ combined_report = <<>> /\ duplicate_ids_new = <<>>
       \/ \E old_path \in DOMAIN disk, new_path \in DOMAIN disk, env \in engine :
             /\ Analysable(old_path, new_path)
             /\ duplicate_ids_new = duplicate_check(disk[new_path])
             /\ IsPrefix(by_id_of(disk[old_path], disk[new_path], env.geos_raises),
                         combined_report)

=============================================================================
